---- MODULE Spec2Model ----
(***************************************************************************)
(* boompah-connect: the generic request executor (common/api_client.py),   *)
(* the WordPress resource client (wordpress/client.py), the template       *)
(* project's configuration validation and wrapper singleton                *)
(* (templates/.../config.py, wp_client.py) and the configuration manager   *)
(* (common/config.py).                                                     *)
(*                                                                         *)
(* Text is a sequence of chunks.  The chunk "/" is one slash; no other     *)
(* chunk begins or ends with a slash.  Credentials are sequences of single *)
(* characters, so that base64 works on their bytes.                        *)
(***************************************************************************)
EXTENDS Integers, Sequences, FiniteSets, TLC

VARIABLES
  cfg,      \* the template project's config module: unloaded, loaded, or failed
  client,   \* the WordPressClient instance (NoClient before construction)
  call,     \* the last constructor or resource-method call and its arguments
  log,      \* the last call's requests, in order: each with the request handed
            \* to session.request, the transport's answer and _request's result
  outcome,  \* how the last call ended: a returned value or a raised error
  errlog,   \* what the last call wrote to logger.error
  sent,     \* requests handed to session.request since the program started
  ncalls,   \* calls made so far, after the construction or the import
  wp_client, \* the template project's wrapper singleton (None until it is built)
  _instance, \* WordPressClientWrapper._instance, the class attribute
  manager   \* the ConfigManager instance (None before construction)

vars ==
  << cfg, client, call, log, outcome, errlog, sent, ncalls, wp_client, _instance,
     manager >>

----------------------------------------------------------------------------
(* Bounds *)

\* The resource methods a program calls on its client, at most.
MaxCalls == 2

----------------------------------------------------------------------------
(* Python values, tagged by type *)

None == [t |-> "none"]
PyStr(s) == [t |-> "str", v |-> s]
PyInt(n) == [t |-> "int", v |-> n]
PyList(s) == [t |-> "list", v |-> s]
PyDict(s) == [t |-> "dict", v |-> s]
PyBytes(s) == [t |-> "bytes", v |-> s]
PyBool(b) == [t |-> "bool", v |-> b]

\* An argument the caller left out, and the value its parameter then has
Omitted == [t |-> "omitted"]
Default(x, d) == IF x.t = "omitted" THEN d ELSE x

\* Python truthiness: None, 0, "", [], {} and b"" are false.
Truthy(x) ==
  CASE x.t = "none" -> FALSE
    [] x.t = "int" -> x.v # 0
    [] x.t = "bool" -> x.v
    [] OTHER -> x.v # <<>>

\* A dict is an insertion-ordered sequence of items [k, v].
Item(k, v) == [k |-> k, v |-> v]

HasKey(d, k) == \E i \in 1..Len(d) : d[i].k = k

Get(d, k) == d[CHOOSE i \in 1..Len(d) : d[i].k = k].v

\* d[k] = v
SetItem(d, k, v) ==
  IF HasKey(d, k)
  THEN [i \in 1..Len(d) |-> IF d[i].k = k THEN Item(k, v) ELSE d[i]]
  ELSE Append(d, Item(k, v))

\* A variant that sends the caller's headers in place of the defaults
update_replacing(d, e) == e

\* d.update(e)
RECURSIVE update(_, _)
update(d, e) ==
  IF e = <<>> THEN d ELSE update(SetItem(d, e[1].k, e[1].v), Tail(e))

Return(v) == [kind |-> "return", value |-> v]
Raise(e) == [kind |-> "raise", error |-> e]

----------------------------------------------------------------------------
(* Text helpers *)

RECURSIVE rstrip(_, _)
rstrip(s, c) ==
  IF s # <<>> /\ s[Len(s)] = c THEN rstrip(SubSeq(s, 1, Len(s) - 1), c) ELSE s

\* A variant that keeps the slashes an endpoint begins with
lstrip_nothing(s, c) == s

RECURSIVE lstrip(_, _)
lstrip(s, c) ==
  IF s # <<>> /\ s[1] = c THEN lstrip(Tail(s), c) ELSE s

Digits == <<"0", "1", "2", "3", "4", "5", "6", "7", "8", "9">>

\* str(n) of an int: its decimal digits
RECURSIVE str(_)
str(n) ==
  IF n < 0 THEN <<"-">> \o str(0 - n)
  ELSE IF n < 10 THEN <<Digits[n + 1]>>
  ELSE str(n \div 10) \o <<Digits[(n % 10) + 1]>>

\* f"{x}" of a value that is an int or a str
Format(x) == IF x.t = "int" THEN str(x.v) ELSE x.v

\* str.encode(): the bytes of the characters credentials are drawn from
Ord(c) ==
  CASE c = "u" -> 117
    [] c = "p" -> 112
    [] c = "s" -> 115
    [] c = "t" -> 116
    [] c = ":" -> 58

RECURSIVE encode(_)
encode(s) == IF s = <<>> THEN <<>> ELSE <<Ord(s[1])>> \o encode(Tail(s))

B64Alphabet ==
  << "A", "B", "C", "D", "E", "F", "G", "H", "I", "J", "K", "L", "M",
     "N", "O", "P", "Q", "R", "S", "T", "U", "V", "W", "X", "Y", "Z",
     "a", "b", "c", "d", "e", "f", "g", "h", "i", "j", "k", "l", "m",
     "n", "o", "p", "q", "r", "s", "t", "u", "v", "w", "x", "y", "z",
     "0", "1", "2", "3", "4", "5", "6", "7", "8", "9", "+", "/" >>

\* base64.b64encode(bs).decode(): three bytes to four characters, "=" padded
RECURSIVE b64encode(_)
b64encode(bs) ==
  IF bs = <<>> THEN <<>>
  ELSE IF Len(bs) = 1 THEN
    << B64Alphabet[(bs[1] \div 4) + 1],
       B64Alphabet[((bs[1] % 4) * 16) + 1], "=", "=" >>
  ELSE IF Len(bs) = 2 THEN
    << B64Alphabet[(bs[1] \div 4) + 1],
       B64Alphabet[((bs[1] % 4) * 16) + (bs[2] \div 16) + 1],
       B64Alphabet[((bs[2] % 16) * 4) + 1], "=" >>
  ELSE
    << B64Alphabet[(bs[1] \div 4) + 1],
       B64Alphabet[((bs[1] % 4) * 16) + (bs[2] \div 16) + 1],
       B64Alphabet[((bs[2] % 16) * 4) + (bs[3] \div 64) + 1],
       B64Alphabet[(bs[3] % 64) + 1] >> \o b64encode(SubSeq(bs, 4, Len(bs)))

----------------------------------------------------------------------------
(* The HTTP transport's answers, and response.json() *)

\* Body tokens: punctuation, string literals, numbers, and bare text.
P(c) == [k |-> "punct", c |-> c]
Q(s) == [k |-> "string", c |-> s]
N(n) == [k |-> "number", n |-> n]
W(s) == [k |-> "text", c |-> s]

IsScalar(tok) == tok.k \in {"string", "number"}

Scalar(tok) == IF tok.k = "number" THEN PyInt(tok.n) ELSE PyStr(<<tok.c>>)

\* The members of an object from token i on: "key" : scalar { , "key" : scalar } }
RECURSIVE Members(_, _, _)
Members(toks, i, acc) ==
  IF i + 3 > Len(toks) THEN [ok |-> FALSE]
  ELSE IF ~(toks[i].k = "string" /\ toks[i + 1] = P(":") /\ IsScalar(toks[i + 2]))
  THEN [ok |-> FALSE]
  ELSE LET d == SetItem(acc, toks[i].c, Scalar(toks[i + 2]))
       IN IF toks[i + 3] = P("}")
          THEN IF i + 3 = Len(toks) THEN [ok |-> TRUE, value |-> PyDict(d)]
               ELSE [ok |-> FALSE]
          ELSE IF toks[i + 3] = P(",") THEN Members(toks, i + 4, d)
          ELSE [ok |-> FALSE]

\* The elements of an array from token i on: scalar { , scalar } ]
RECURSIVE Elements(_, _, _)
Elements(toks, i, acc) ==
  IF i + 1 > Len(toks) \/ ~IsScalar(toks[i]) THEN [ok |-> FALSE]
  ELSE LET l == Append(acc, Scalar(toks[i]))
       IN IF toks[i + 1] = P("]")
          THEN IF i + 1 = Len(toks) THEN [ok |-> TRUE, value |-> PyList(l)]
               ELSE [ok |-> FALSE]
          ELSE IF toks[i + 1] = P(",") THEN Elements(toks, i + 2, l)
          ELSE [ok |-> FALSE]

\* response.json(): the decoded value, or ok = FALSE where it raises a
\* JSONDecodeError (a ValueError).  Objects and arrays hold scalars.
json_loads(toks) ==
  IF toks = <<>> THEN [ok |-> FALSE]
  ELSE IF Len(toks) = 1 THEN
    IF IsScalar(toks[1]) THEN [ok |-> TRUE, value |-> Scalar(toks[1])]
    ELSE IF toks[1] = W("null") THEN [ok |-> TRUE, value |-> None]
    ELSE [ok |-> FALSE]
  ELSE IF toks[1] = P("{") THEN
    IF toks = <<P("{"), P("}")>> THEN [ok |-> TRUE, value |-> PyDict(<<>>)]
    ELSE Members(toks, 2, <<>>)
  ELSE IF toks[1] = P("[") THEN
    IF toks = <<P("["), P("]")>> THEN [ok |-> TRUE, value |-> PyList(<<>>)]
    ELSE Elements(toks, 2, <<>>)
  ELSE [ok |-> FALSE]

\* Response bodies: none, text that is not JSON, an object with an id, an
\* object without one, a truncated object, an array, null.
Empty == <<>>
Html == <<W("<html>")>>
WithId == <<P("{"), Q("id"), P(":"), N(7), P("}")>>
WithCode == <<P("{"), Q("code"), P(":"), Q("rest_error"), P("}")>>

Bodies ==
  { Empty, Html, WithId, WithCode,
    <<P("{"), Q("id"), P(":"), N(7)>>,
    <<P("["), N(1), P(","), N(2), P("]")>>,
    <<W("null")>> }

\* Status codes of every class, with the edges of the 2xx and 4xx/5xx ranges
Statuses == {101, 199, 200, 201, 204, 299, 300, 304, 399, 400, 404, 499, 500, 503, 599}

Response(status, text) == [k |-> "response", status_code |-> status, text |-> text]

ConnectionError == [k |-> "exception", type |-> "ConnectionError"]

\* What session.request can do with a request: a response, or an exception
\* of the transport (no response at all).
AllAnswers ==
  {Response(s, b) : s \in Statuses, b \in Bodies} \cup {ConnectionError}

\* The answers the resource methods are run against: successes with and
\* without a body and an id, a client and a server error, no connection
Answers ==
  { Response(200, Empty), Response(200, WithCode), Response(201, WithId),
    Response(404, WithCode), Response(500, Html), ConnectionError }

----------------------------------------------------------------------------
(* common/api_client.py: APIClient *)

\* requests.Session(): a new session object with the library's default headers
Session(id) ==
  [ id |-> id,
    headers |-> << Item("User-Agent", <<"python-requests">>),
                   Item("Accept-Encoding", <<"gzip, deflate">>),
                   Item("Accept", <<"*/*">>),
                   Item("Connection", <<"keep-alive">>) >> ]

APIClient_get_default_headers ==
  << Item("Content-Type", <<"application/json">>),
     Item("Accept", <<"application/json">>),
     Item("User-Agent", <<"BoomPahConnect/0.1.0">>) >>

\* WordPressClient._get_default_headers
_get_default_headers(self) ==
  LET headers == SetItem(APIClient_get_default_headers,
                         "Content-Type", <<"application/json">>)
  IN IF Truthy(self.user_agent)
     THEN SetItem(headers, "User-Agent", self.user_agent.v)
     ELSE headers

\* The HTTPError response.raise_for_status() builds: its message names the
\* status code and the url, and it holds the response.
HTTPError(response, url) ==
  [ type |-> "HTTPError",
    msg |-> str(response.status_code)
            \o << IF response.status_code < 500 THEN " Client Error"
                  ELSE " Server Error", " for url: " >> \o url,
    response |-> response ]

\* A variant that takes only server errors for failures
raises_for_server_errors(response) == response.status_code >= 500

\* response.raise_for_status() raises for 400 <= status < 600 only
raises_for_status(response) ==
  400 <= response.status_code /\ response.status_code < 600

\* response.text: the body as text
Text(response) == [t |-> "text", v |-> response.text]

\* A variant that logs the raw text as the detail without trying JSON
handle_response_logs_text(response, url) ==
  LET decoded == json_loads(response.text)
  IN IF raises_for_status(response)
     THEN LET e == HTTPError(response, url)
          IN [ result |-> Raise(e),
               logged |-> << [msg |-> "HTTP error: ", arg |-> e],
                             [msg |-> "Error details: ", arg |-> Text(response)] >> ]
     ELSE IF decoded.ok
     THEN [result |-> Return(decoded.value), logged |-> <<>>]
     ELSE [result |-> Return(PyDict(<<>>)), logged |-> <<>>]

\* A variant without the "except ValueError" clause: a body that is not JSON
\* raises
handle_response_strict(response, url) ==
  LET decoded == json_loads(response.text)
  IN IF raises_for_status(response)
     THEN LET e == HTTPError(response, url)
              error_detail == IF decoded.ok THEN decoded.value ELSE Text(response)
          IN [ result |-> Raise(e),
               logged |-> << [msg |-> "HTTP error: ", arg |-> e],
                             [msg |-> "Error details: ", arg |-> error_detail] >> ]
     ELSE IF decoded.ok
     THEN [result |-> Return(decoded.value), logged |-> <<>>]
     ELSE [result |-> Raise([type |-> "JSONDecodeError"]), logged |-> <<>>]

\* The try block of _request: the decoded body is returned; an HTTPError is
\* logged with its detail and raised again as it is; a body that is not JSON
\* gives {}.
handle_response(response, url) ==
  LET decoded == json_loads(response.text)
  IN IF raises_for_status(response)
     THEN LET e == HTTPError(response, url)
              error_detail == IF decoded.ok THEN decoded.value ELSE Text(response)
          IN [ result |-> Raise(e),
               logged |-> << [msg |-> "HTTP error: ", arg |-> e],
                             [msg |-> "Error details: ", arg |-> error_detail] >> ]
     ELSE IF decoded.ok
     THEN [result |-> Return(decoded.value), logged |-> <<>>]
     ELSE [result |-> Return(PyDict(<<>>)), logged |-> <<>>]

\* A variant that opens a new session for the next request
self_with_new_session(self) ==
  [self EXCEPT !.session = [@ EXCEPT !.id = @ + 1]]

\* The attributes of the client after _request: it assigns none of them.
self_after_request(self) == self

\* APIClient._request, given what the transport answers
_request(self, method, endpoint, params, data, json, headers, answer) ==
  LET url == self.base_url \o <<"/">> \o lstrip(endpoint, "/")
      default_headers ==
        IF Truthy(headers)
        THEN update(_get_default_headers(self), headers.v)
        ELSE _get_default_headers(self)
      request == [ method |-> method, url |-> url, params |-> params,
                   data |-> data, json |-> json, headers |-> default_headers,
                   session |-> self.session ]
      handled == handle_response(answer, url)
      result == IF answer.k = "exception" THEN Raise([type |-> answer.type])
                ELSE handled.result
  IN [ self |-> self_after_request(self),
       entry |-> [request |-> request, answer |-> answer, result |-> result],
       result |-> result,
       logged |-> IF answer.k = "exception" THEN <<>> ELSE handled.logged ]

get(self, endpoint, params, answer) ==
  _request(self, "GET", endpoint, params, None, None, None, answer)

post(self, endpoint, data, json, headers, answer) ==
  _request(self, "POST", endpoint, None, data, json, headers, answer)

put(self, endpoint, data, json, headers, answer) ==
  _request(self, "PUT", endpoint, None, data, json, headers, answer)

\* A variant that deletes with a POST
delete_by_post(self, endpoint, params, answer) ==
  _request(self, "POST", endpoint, params, None, None, None, answer)

delete(self, endpoint, params, answer) ==
  _request(self, "DELETE", endpoint, params, None, None, None, answer)

----------------------------------------------------------------------------
(* wordpress/client.py: WordPressClient *)

\* A variant that prefers the token to the pair
auth_headers_token_first(username, password, auth_token) ==
  IF Truthy(auth_token)
  THEN <<Item("Authorization", <<"Bearer ">> \o auth_token.v)>>
  ELSE IF Truthy(username) /\ Truthy(password)
  THEN <<Item("Authorization", <<"Basic ">> \o
           b64encode(encode(username.v \o <<":">> \o password.v)))>>
  ELSE <<>>

\* A variant that knows the pair only
auth_headers_pair_only(username, password, auth_token) ==
  IF Truthy(username) /\ Truthy(password)
  THEN <<Item("Authorization", <<"Basic ">> \o
           b64encode(encode(username.v \o <<":">> \o password.v)))>>
  ELSE <<>>

\* The Authorization header __init__ puts on the session, if any
auth_headers(username, password, auth_token) ==
  IF Truthy(username) /\ Truthy(password)
  THEN LET auth_string == username.v \o <<":">> \o password.v
           encoded_auth == b64encode(encode(auth_string))
       IN <<Item("Authorization", <<"Basic ">> \o encoded_auth)>>
  ELSE IF Truthy(auth_token)
  THEN <<Item("Authorization", <<"Bearer ">> \o auth_token.v)>>
  ELSE <<>>

\* WordPressClient(base_url, username, password, auth_token, user_agent):
\* the new instance, or the error of base_url.rstrip on None.  No request
\* is made.
WordPressClient(base_url, username, password, auth_token, user_agent) ==
  IF base_url.t = "none"
  THEN [ self |-> None, log |-> <<>>, logged |-> <<>>,
         result |-> Raise([type |-> "AttributeError"]) ]
  ELSE [ self |-> [ t |-> "WordPressClient",
                    user_agent |-> user_agent,
                    base_url |-> rstrip(base_url.v, "/"),
                    session |-> [ Session(1) EXCEPT !.headers =
                      update(@, auth_headers(username, password, auth_token)) ],
                    username |-> username,
                    password |-> password,
                    auth_token |-> auth_token ],
         log |-> <<>>, logged |-> <<>>, result |-> Return(None) ]

\* A variant that turns an error into an empty result
returns_swallowing(r) ==
  [ self |-> r.self, log |-> <<r.entry>>, logged |-> r.logged,
    result |-> IF r.result.kind = "raise" THEN Return(PyDict(<<>>)) ELSE r.result ]

\* A variant that sends a failed request once more
returns_retrying(r) ==
  [ self |-> r.self, logged |-> r.logged, result |-> r.result,
    log |-> IF r.result.kind = "raise" THEN <<r.entry, r.entry>> ELSE <<r.entry>> ]

\* "return self.get(...)" and its like: the method ends as the one request
\* ended, with that value or that error.
returns(r) ==
  [self |-> r.self, log |-> <<r.entry>>, result |-> r.result, logged |-> r.logged]

\* ",".join(map(str, ids))
RECURSIVE join_str(_)
join_str(ids) ==
  IF ids = <<>> THEN <<>>
  ELSE IF Len(ids) = 1 THEN Format(ids[1])
  ELSE Format(ids[1]) \o <<",">> \o join_str(Tail(ids))

\* A variant that leaves out only None
SetIfNotNone(d, k, v) == IF v.t # "none" THEN SetItem(d, k, v) ELSE d

\* A variant that sets the key whatever the value
SetAlways(d, k, v) == SetItem(d, k, v)

\* data[k] = v if v is truthy
SetIf(d, k, v) == IF Truthy(v) THEN SetItem(d, k, v) ELSE d

get_posts(self, limit, page, search, categories, tags, status, answer) ==
  LET p0 == << Item("per_page", Default(limit, PyInt(10))),
               Item("page", Default(page, PyInt(1))),
               Item("status", Default(status, PyStr(<<"publish">>))) >>
      p1 == SetIf(p0, "search", search)
      p2 == IF Truthy(categories)
            THEN SetItem(p1, "categories", PyStr(join_str(categories.v))) ELSE p1
      params == IF Truthy(tags)
                THEN SetItem(p2, "tags", PyStr(join_str(tags.v))) ELSE p2
  IN returns(get(self, <<"wp/v2/posts">>, PyDict(params), answer))

get_post(self, post_id, answer) ==
  returns(get(self, <<"wp/v2/posts", "/">> \o Format(post_id), None, answer))

create_post(self, title, content, status, excerpt, categories, tags, featured_media, answer) ==
  LET d0 == << Item("title", title), Item("content", content),
               Item("status", Default(status, PyStr(<<"draft">>))) >>
      data == SetIf(SetIf(SetIf(SetIf(d0, "excerpt", excerpt),
                "categories", categories), "tags", tags),
                "featured_media", featured_media)
  IN returns(post(self, <<"wp/v2/posts">>, None, PyDict(data), None, answer))

update_post(self, post_id, title, content, status, excerpt, categories, tags, featured_media, answer) ==
  LET data == SetIf(SetIf(SetIf(SetIf(SetIf(SetIf(SetIf(<<>>,
                "title", title), "content", content), "status", status),
                "excerpt", excerpt), "categories", categories), "tags", tags),
                "featured_media", featured_media)
  IN returns(post(self, <<"wp/v2/posts", "/">> \o Format(post_id),
                  None, PyDict(data), None, answer))

delete_post(self, post_id, force, answer) ==
  LET params == << Item("force",
                        PyStr(IF Truthy(Default(force, PyBool(FALSE)))
                              THEN <<"true">> ELSE <<"false">>)) >>
  IN returns(delete(self, <<"wp/v2/posts", "/">> \o Format(post_id),
                    PyDict(params), answer))

\* get_categories, get_tags and get_users: per_page and page to one endpoint
list_page(self, endpoint, limit, page, answer) ==
  LET params == << Item("per_page", Default(limit, PyInt(10))),
                   Item("page", Default(page, PyInt(1))) >>
  IN returns(get(self, endpoint, PyDict(params), answer))

get_categories(self, limit, page, answer) ==
  list_page(self, <<"wp/v2/categories">>, limit, page, answer)

get_tags(self, limit, page, answer) ==
  list_page(self, <<"wp/v2/tags">>, limit, page, answer)

get_users(self, limit, page, answer) ==
  list_page(self, <<"wp/v2/users">>, limit, page, answer)

get_me(self, answer) == returns(get(self, <<"wp/v2/users/me">>, None, answer))

get_comments(self, post_id, limit, page, answer) ==
  LET p0 == << Item("per_page", Default(limit, PyInt(10))),
               Item("page", Default(page, PyInt(1))) >>
      params == SetIf(p0, "post", Default(post_id, None))
  IN returns(get(self, <<"wp/v2/comments">>, PyDict(params), answer))

\* os.path.basename: what follows the last slash
RECURSIVE basename(_)
basename(path) ==
  IF \E i \in 1..Len(path) : path[i] = "/" THEN basename(Tail(path)) ELSE path

\* A variant that knows no extension
guess_type_unknown(path) == None

\* mimetypes.guess_type(path)[0]: by the extension, None when it is unknown.
\* A path's extension is its last chunk.
guess_type(path) ==
  LET ext == IF path = <<>> THEN "" ELSE path[Len(path)]
  IN CASE ext = ".png" -> PyStr(<<"image/png">>)
       [] ext = ".jpg" -> PyStr(<<"image/jpeg">>)
       [] OTHER -> None

\* response['id'] of the decoded upload response
subscript_id(response) ==
  IF response.t # "dict" THEN Raise([type |-> "TypeError"])
  ELSE IF ~HasKey(response.v, "id") THEN Raise([type |-> "KeyError", key |-> "id"])
  ELSE Return(Get(response.v, "id"))

\* A variant that deletes the uploaded item when the metadata request fails
with_metadata_rollback(r1, r2) ==
  [ self |-> r2.self,
    log |-> IF r2.result.kind = "raise"
            THEN << r1.entry, r2.entry,
                    [ request |-> [r2.entry.request EXCEPT !.method = "DELETE",
                                                           !.json = None],
                      answer |-> Response(200, Empty),
                      result |-> Return(PyDict(<<>>)) ] >>
            ELSE <<r1.entry, r2.entry>>,
    logged |-> r1.logged \o r2.logged, result |-> r2.result ]

\* The end of upload_media when it sent the metadata: the call ends as the
\* second request ended, and nothing more is sent.
with_metadata(r1, r2) ==
  [ self |-> r2.self, log |-> <<r1.entry, r2.entry>>,
    logged |-> r1.logged \o r2.logged, result |-> r2.result ]

\* upload_media; file is what open(file_path, 'rb') finds: the file's bytes,
\* or None when there is no such file.  first and second are the transport's
\* answers to the upload and to the metadata request.
upload_media(self, file_path, title, caption, alt_text, file, first, second) ==
  LET filename == basename(file_path)
      guessed == guess_type(file_path)
      mime_type == IF Truthy(guessed) THEN guessed.v
                   ELSE <<"application/octet-stream">>
      headers == << Item("Content-Disposition",
                         <<"attachment; filename=\"">> \o filename \o <<"\"">>),
                    Item("Content-Type", mime_type) >>
      r1 == post(self, <<"wp/v2/media">>, file, None, PyDict(headers), first)
      media_id == subscript_id(r1.result.value)
      metadata == SetIf(SetIf(SetIf(<<>>, "title", title),
                    "caption", caption), "alt_text", alt_text)
      r2 == post(r1.self, <<"wp/v2/media", "/">> \o Format(media_id.value),
                 None, PyDict(metadata), None, second)
  IN IF file.t = "none"
     THEN [ self |-> self, log |-> <<>>, logged |-> <<>>,
            result |-> Raise([type |-> "FileNotFoundError"]) ]
     ELSE IF r1.result.kind = "raise" THEN returns(r1)
     ELSE IF ~(Truthy(title) \/ Truthy(caption) \/ Truthy(alt_text))
     THEN returns(r1)
     ELSE IF media_id.kind = "raise"
     THEN [ self |-> r1.self, log |-> <<r1.entry>>, logged |-> r1.logged,
            result |-> media_id ]
     ELSE with_metadata(r1, r2)

----------------------------------------------------------------------------
(* templates/wordpress_project: config.py and wp_client.py *)

PROJECT_USER_AGENT == PyStr(<<"WordPress-Project", "/", "1.0.0">>)

\* A variant that checks the base URL only
config_base_url_only(env) ==
  IF ~Truthy(env.WP_BASE_URL)
  THEN [status |-> "ValueError", missing |-> "WP_BASE_URL"]
  ELSE [status |-> "loaded", env |-> env]

\* config.py: the values read from the environment, or the ValueError its
\* validation raises
config(env) ==
  IF ~Truthy(env.WP_BASE_URL)
  THEN [status |-> "ValueError", missing |-> "WP_BASE_URL"]
  ELSE IF ~(Truthy(env.WP_USERNAME) /\ Truthy(env.WP_PASSWORD))
          /\ ~Truthy(env.WP_AUTH_TOKEN)
  THEN [status |-> "ValueError", missing |-> "credentials"]
  ELSE [status |-> "loaded", env |-> env]

\* WordPressClientWrapper._initialize: builds the client from the config
\* values and probes the connection with get_me; an error of the probe is
\* logged and raised again.
_initialize(values, answer) ==
  LET made == WordPressClient(values.WP_BASE_URL, values.WP_USERNAME,
                              values.WP_PASSWORD, values.WP_AUTH_TOKEN,
                              PROJECT_USER_AGENT)
      probe == get_me(made.self, answer)
  IN IF probe.result.kind = "raise"
     THEN [probe EXCEPT !.logged = @ \o
             <<[msg |-> "Failed to connect to WordPress API: ",
                arg |-> probe.result.error]>>]
     ELSE [probe EXCEPT !.result = Return(None)]

\* WordPressClientWrapper(): __new__ on the class whose _instance is inst.
\* The new object is _instance before _initialize runs on it, and stays so
\* when _initialize raises.  connected tells whether the probe of the object
\* has returned; it is no attribute of the object.
WordPressClientWrapper(inst, values, answer) ==
  IF inst = None
  THEN LET x == _initialize(values, answer)
           made == [ t |-> "WordPressClientWrapper", client |-> x.self,
                     connected |-> x.result.kind = "return" ]
       IN [ _instance |-> made, log |-> x.log, logged |-> x.logged,
            result |-> IF x.result.kind = "raise" THEN x.result ELSE Return(made) ]
  ELSE [ _instance |-> inst, log |-> <<>>, logged |-> <<>>, result |-> Return(inst) ]

----------------------------------------------------------------------------
(* common/config.py: ConfigManager.  Names and keys are sequences of        *)
(* characters; a mapping's keys are such sequences.                         *)

\* str.lower() on the characters the names are written in
lower(c) ==
  CASE c = "B" -> "b"
    [] c = "W" -> "w"
    [] c = "U" -> "u"
    [] c = "D" -> "d"
    [] c = "H" -> "h"
    [] OTHER -> c

startswith(s, p) == Len(p) <= Len(s) /\ SubSeq(s, 1, Len(p)) = p

\* key[len(prefix):].lower().replace("_", ".")
config_key(key, prefix) ==
  [ i \in 1..(Len(key) - Len(prefix)) |->
      IF lower(key[i + Len(prefix)]) = "_" THEN "." ELSE lower(key[i + Len(prefix)]) ]

\* Where the first dot of a key is; 0 when it has none
find_dot(key) ==
  IF \E i \in DOMAIN key : key[i] = "."
  THEN CHOOSE i \in DOMAIN key : key[i] = "." /\ \A j \in 1..(i - 1) : key[j] # "."
  ELSE 0

\* key.split("."): the parts between the dots
RECURSIVE split(_)
split(key) ==
  IF find_dot(key) = 0 THEN <<key>>
  ELSE <<SubSeq(key, 1, find_dot(key) - 1)>>
         \o split(SubSeq(key, find_dot(key) + 1, Len(key)))

\* ConfigManager._set_nested_key: the mapping after the assignment, or the
\* TypeError of an assignment into a value that is no mapping.  A mapping
\* made on the way stays when the call raises further down, which a new
\* mapping never does.
RECURSIVE _set_nested_key(_, _, _)
_set_nested_key(config_dict, key, value) ==
  IF config_dict.t # "dict" THEN Raise([type |-> "TypeError"])
  ELSE IF find_dot(key) # 0
  THEN LET main_key == SubSeq(key, 1, find_dot(key) - 1)
           rest == SubSeq(key, find_dot(key) + 1, Len(key))
           inner == IF HasKey(config_dict.v, main_key)
                    THEN _set_nested_key(Get(config_dict.v, main_key), rest, value)
                    ELSE _set_nested_key(PyDict(<<>>), rest, value)
       IN IF inner.kind = "raise" THEN inner
          ELSE Return(PyDict(SetItem(config_dict.v, main_key, inner.value)))
  ELSE Return(PyDict(SetItem(config_dict.v, key, value)))

\* The loop of get over the parts of the key
RECURSIVE get_parts(_, _, _)
get_parts(value, parts, default) ==
  IF parts = <<>> THEN value
  ELSE IF value.t = "dict" /\ HasKey(value.v, Head(parts))
  THEN get_parts(Get(value.v, Head(parts)), Tail(parts), default)
  ELSE default

\* ConfigManager.get(key, default)
ConfigManager_get(self, key, default) == get_parts(self.config, split(key), default)

\* The loop of load_from_env over os.environ.items() in its order: the
\* configuration after it, and the error that ended it, if one did
RECURSIVE load_from_env(_, _, _)
load_from_env(self, environ, prefix) ==
  IF environ = <<>> THEN [self |-> self, result |-> Return(None)]
  ELSE IF ~startswith(Head(environ).name, prefix)
  THEN load_from_env(self, Tail(environ), prefix)
  ELSE IF _set_nested_key(self.config, config_key(Head(environ).name, prefix),
                          Head(environ).value).kind = "raise"
  THEN [ self |-> self,
         result |-> _set_nested_key(self.config,
                                    config_key(Head(environ).name, prefix),
                                    Head(environ).value) ]
  ELSE load_from_env(
         [self EXCEPT !.config =
            _set_nested_key(self.config, config_key(Head(environ).name, prefix),
                            Head(environ).value).value],
         Tail(environ), prefix)

\* What a path leads to: no file, a path through a regular file, a file of
\* bytes that are no text in the locale's encoding, a file of text
NoSuchFile == [k |-> "missing"]
ThroughAFile == [k |-> "not a directory"]
Undecodable == [k |-> "bytes"]
TextFile(toks) == [k |-> "text", text |-> toks]

\* self.config.update(value) with what json.load gave
config_update(d, value) ==
  CASE value.t = "dict" -> Return(PyDict(update(d.v, value.v)))
    [] value.t \in {"list", "str"} ->
         IF value.v = <<>> THEN Return(d)
         ELSE Raise([type |-> IF value.t = "list" THEN "TypeError" ELSE "ValueError"])
    [] OTHER -> Raise([type |-> "TypeError"])

\* ConfigManager.load_from_file: FileNotFoundError and JSONDecodeError are
\* logged and not raised; every other error reaches the caller.
load_from_file(self, file) ==
  CASE file.k = "missing" ->
         [ self |-> self, result |-> Return(None),
           logged |-> << [msg |-> "Failed to load configuration from ",
                          arg |-> "FileNotFoundError"] >> ]
    [] file.k = "not a directory" ->
         [ self |-> self, result |-> Raise([type |-> "NotADirectoryError"]),
           logged |-> <<>> ]
    [] file.k = "bytes" ->
         [ self |-> self, result |-> Raise([type |-> "UnicodeDecodeError"]),
           logged |-> <<>> ]
    [] file.k = "text" /\ ~json_loads(file.text).ok ->
         [ self |-> self, result |-> Return(None),
           logged |-> << [msg |-> "Failed to load configuration from ",
                          arg |-> "JSONDecodeError"] >> ]
    [] OTHER ->
         IF config_update(self.config, json_loads(file.text).value).kind = "raise"
         THEN [ self |-> self, logged |-> <<>>,
                result |-> config_update(self.config, json_loads(file.text).value) ]
         ELSE [ self |-> [self EXCEPT !.config =
                            config_update(@, json_loads(file.text).value).value],
                result |-> Return(None), logged |-> <<>> ]

\* ConfigManager(config_file): an empty configuration, then the file if a
\* path is given
ConfigManager(file) ==
  IF file = None
  THEN [ self |-> [t |-> "ConfigManager", config |-> PyDict(<<>>)],
         result |-> Return(None), logged |-> <<>> ]
  ELSE load_from_file([t |-> "ConfigManager", config |-> PyDict(<<>>)], file)

----------------------------------------------------------------------------
(* Inputs *)

NoStr == PyStr(<<>>)

\* What os.getenv gives for a variable: unset, set to "", set to a value
EnvValues(v) == {None, NoStr, PyStr(v)}

Environments ==
  [ WP_BASE_URL : EnvValues(<<"https://site/wp-json">>),
    WP_USERNAME : EnvValues(<<"u">>),
    WP_PASSWORD : EnvValues(<<"p", "s">>),
    WP_AUTH_TOKEN : EnvValues(<<"t">>) ]

\* Every combination of constructor arguments: each absent, empty or given
AllClientArgs ==
  [ base_url : {None, NoStr, PyStr(<<"https://site/wp-json">>),
                PyStr(<<"https://site/wp-json", "/">>)},
    username : {None, NoStr, PyStr(<<"u">>)},
    password : {None, NoStr, PyStr(<<"p", "s">>)},
    auth_token : {None, NoStr, PyStr(<<"t">>)},
    user_agent : {None, PyStr(<<"agent/1">>)} ]

\* The clients the resource methods are called on: one without
\* credentials, one with the pair, one with a token and its own user agent,
\* one with the pair and a token
ClientArgs ==
  { a \in AllClientArgs :
      /\ a.base_url = PyStr(<<"https://site/wp-json", "/">>)
      /\ \/ a.username = None /\ a.password = None /\ a.auth_token = None
            /\ a.user_agent = None
         \/ a.username = PyStr(<<"u">>) /\ a.password = PyStr(<<"p", "s">>)
            /\ a.auth_token \in {None, PyStr(<<"t">>)} /\ a.user_agent = None
         \/ a.username = None /\ a.password = None /\ a.auth_token = PyStr(<<"t">>)
            /\ a.user_agent # None }

\* Clients on base URLs that end with no, one and two slashes (a host each),
\* with and without a user agent of their own
ExecutorClientArgs ==
  [ base_url : { PyStr(<<"https://a/wp-json">>), PyStr(<<"https://b/wp-json", "/">>),
                 PyStr(<<"https://c/wp-json", "/", "/">>), PyStr(<<"/">>) },
    username : {None},
    password : {None},
    auth_token : {PyStr(<<"t">>)},
    user_agent : {None, PyStr(<<"agent/1">>)} ]

\* Endpoints that begin with no, one and two slashes; one ends with a slash
Endpoints ==
  { <<"wp/v2/posts">>, <<"/", "wp/v2/posts">>,
    <<"/", "/", "wp/v2/posts", "/">>, <<"/">> }

\* Header overrides: none, an empty mapping, a default key, a new key, both
\* with a user agent
Overrides ==
  { None, PyDict(<<>>),
    PyDict(<<Item("Accept", <<"text/html">>)>>),
    PyDict(<<Item("X-Trace", <<"1">>)>>),
    PyDict(<<Item("User-Agent", <<"caller/2">>), Item("Content-Type", <<"text/plain">>),
             Item("X-Trace", <<"1">>)>>) }

\* Environment variables: BOOMPAH_WORDPRESS, BOOMPAH_WORDPRESS_URL,
\* BOOMPAH_DEBUG and HOME_WORDPRESS_URL, each word written as its first letter
EnvVars ==
  { [name |-> <<"B", "_", "W">>, value |-> PyStr(<<"x">>)],
    [name |-> <<"B", "_", "W", "_", "U">>, value |-> PyStr(<<"u">>)],
    [name |-> <<"B", "_", "D">>, value |-> PyStr(<<"1">>)],
    [name |-> <<"H", "_", "W", "_", "U">>, value |-> PyStr(<<"h">>)] }

\* The orders in which os.environ.items() can give a set of variables
Orders(S) ==
  { s \in [1..Cardinality(S) -> S] : \A i, j \in DOMAIN s : s[i] = s[j] => i = j }

\* Every environment made of these variables, in every order
Environs == UNION {Orders(S) : S \in SUBSET EnvVars}

Prefixes == { <<"B", "_">>, <<"H", "_">> }

\* The texts of configuration files: an object (its keys are character
\* sequences), the empty object, a truncated object, nothing, text that is
\* not JSON, an array
ConfigTexts ==
  { << P("{"), Q(<<"w">>), P(":"), Q("file"), P(","), Q(<<"k">>), P(":"), N(2), P("}") >>,
    << P("{"), P("}") >>,
    << P("{"), Q(<<"w">>), P(":") >>,
    << >>,
    << W("<html>") >>,
    << P("["), N(1), P(","), N(2), P("]") >> }

ConfigFiles ==
  {NoSuchFile, ThroughAFile, Undecodable} \cup {TextFile(t) : t \in ConfigTexts}

GetKeys == { <<"w">>, <<"w", ".", "u">>, <<"d">>, <<"w", ".", "u", ".", "x">> }

Ten == PyInt(10)
One == PyInt(1)
Publish == PyStr(<<"publish">>)
Draft == PyStr(<<"draft">>)
Ids == PyList(<<PyInt(3), PyInt(12)>>)

GetPostsArgs ==
  { [limit |-> Omitted, page |-> Omitted, search |-> None, categories |-> None,
     tags |-> None, status |-> Omitted],
    [limit |-> Ten, page |-> One, search |-> PyStr(<<"q">>), categories |-> Ids,
     tags |-> PyList(<<PyInt(4)>>), status |-> Draft],
    [limit |-> PyInt(5), page |-> PyInt(2), search |-> NoStr,
     categories |-> PyList(<<>>), tags |-> None, status |-> Publish] }

PostArgs ==
  { [title |-> PyStr(<<"T">>), content |-> PyStr(<<"C">>), status |-> Omitted,
     excerpt |-> None, categories |-> None, tags |-> None, featured_media |-> None],
    [title |-> PyStr(<<"T">>), content |-> PyStr(<<"C">>), status |-> Publish,
     excerpt |-> PyStr(<<"E">>), categories |-> Ids, tags |-> PyList(<<PyInt(4)>>),
     featured_media |-> PyInt(9)],
    [title |-> PyStr(<<"T">>), content |-> NoStr, status |-> Draft,
     excerpt |-> NoStr, categories |-> PyList(<<>>), tags |-> None,
     featured_media |-> PyInt(0)] }

UpdateArgs ==
  { [title |-> PyStr(<<"New">>), content |-> None, status |-> None,
     excerpt |-> None, categories |-> None, tags |-> None, featured_media |-> None],
    [title |-> NoStr, content |-> PyStr(<<"C">>), status |-> Publish,
     excerpt |-> PyStr(<<"E">>), categories |-> PyList(<<>>), tags |-> Ids,
     featured_media |-> PyInt(0)],
    [title |-> None, content |-> None, status |-> None,
     excerpt |-> None, categories |-> None, tags |-> None, featured_media |-> None] }

PageArgs == { [limit |-> Omitted, page |-> Omitted], [limit |-> PyInt(5), page |-> PyInt(2)] }

CommentPosts == {Omitted, PyInt(7), PyInt(0)}

Forces == {Omitted, PyBool(TRUE), PyBool(FALSE)}

PngBytes == PyBytes(<<137, 80, 78, 71>>)

UploadArgs ==
  { [file_path |-> <<"/", "tmp", "/", "a", ".png">>, file |-> PngBytes,
     title |-> None, caption |-> None, alt_text |-> None],
    [file_path |-> <<"/", "tmp", "/", "a", ".png">>, file |-> PngBytes,
     title |-> PyStr(<<"T">>), caption |-> None, alt_text |-> None],
    [file_path |-> <<"b", ".bin">>, file |-> PyBytes(<<>>),
     title |-> NoStr, caption |-> PyStr(<<"C">>), alt_text |-> PyStr(<<"A">>)],
    [file_path |-> <<"gone", ".jpg">>, file |-> None,
     title |-> PyStr(<<"T">>), caption |-> None, alt_text |-> None] }

----------------------------------------------------------------------------
(* The program *)

Init ==
  /\ cfg = [status |-> "unloaded"]
  /\ wp_client = None
  /\ _instance = None
  /\ manager = None
  /\ client = None
  /\ call = [method |-> "none"]
  /\ log = <<>>
  /\ outcome = [kind |-> "none"]
  /\ errlog = <<>>
  /\ sent = 0
  /\ ncalls = 0

\* A call ends: its requests went out, its result is the caller's
Finish(name, args, x) ==
  /\ client' = x.self
  /\ call' = [method |-> name, args |-> args]
  /\ log' = x.log
  /\ outcome' = x.result
  /\ errlog' = x.logged
  /\ sent' = sent + Len(x.log)
  /\ ncalls' = IF name = "WordPressClient" THEN ncalls ELSE ncalls + 1

Constructed == client.t = "WordPressClient"

CanCall == Constructed /\ ncalls < MaxCalls

\* A program of the template project starts by importing wp_client, which
\* imports config and then builds the wrapper singleton.
import_wp_client ==
  /\ call.method = "none"
  /\ \E env \in Environments, answer \in Answers :
       \E c \in {config(env)} :
          /\ cfg' = c
          /\ call' = [method |-> "import wp_client", args |-> env]
          /\ client' = client
          /\ manager' = manager
          /\ ncalls' = ncalls
          /\ IF c.status = "ValueError"
             THEN /\ wp_client' = None
                  /\ _instance' = _instance
                  /\ log' = <<>>
                  /\ errlog' = <<>>
                  /\ sent' = sent
                  /\ outcome' = Raise([type |-> "ValueError", missing |-> c.missing])
             ELSE \E x \in {WordPressClientWrapper(_instance, env, answer)} :
                  /\ wp_client' = IF x.result.kind = "raise" THEN None
                                  ELSE x.result.value
                  /\ _instance' = x._instance
                  /\ log' = x.log
                  /\ errlog' = x.logged
                  /\ sent' = sent + Len(x.log)
                  /\ outcome' = IF x.result.kind = "raise" THEN x.result
                                ELSE Return(None)

\* A program that has the class constructs the wrapper again, also after
\* the construction at import raised.
Call_WordPressClientWrapper ==
  /\ cfg.status = "loaded" /\ ncalls < MaxCalls
  /\ \E answer \in Answers :
       \E x \in {WordPressClientWrapper(_instance, cfg.env, answer)} :
          /\ _instance' = x._instance
          /\ call' = [method |-> "WordPressClientWrapper", args |-> cfg.env]
          /\ log' = x.log
          /\ errlog' = x.logged
          /\ outcome' = x.result
          /\ sent' = sent + Len(x.log)
          /\ ncalls' = ncalls + 1
  /\ UNCHANGED <<cfg, client, wp_client, manager>>

\* A program that uses the library directly constructs its client.
Construct(args) ==
  /\ call.method = "none"
  /\ \E a \in args :
       Finish("WordPressClient", a,
              WordPressClient(a.base_url, a.username, a.password,
                              a.auth_token, a.user_agent))
  /\ UNCHANGED <<cfg, wp_client, _instance, manager>>

\* Whether upload_media goes on to its second request after this first answer
SendsMetadata(self, a, first) ==
  Len(upload_media(self, a.file_path, a.title, a.caption, a.alt_text,
                   a.file, first, first).log) = 2

Call_get_posts ==
  /\ CanCall
  /\ \E a \in GetPostsArgs, answer \in Answers :
       Finish("get_posts", a,
              get_posts(client, a.limit, a.page, a.search, a.categories,
                        a.tags, a.status, answer))
  /\ UNCHANGED <<cfg, wp_client, _instance, manager>>

Call_get_post ==
  /\ CanCall
  /\ \E id \in {PyInt(7)}, answer \in Answers :
       Finish("get_post", [post_id |-> id], get_post(client, id, answer))
  /\ UNCHANGED <<cfg, wp_client, _instance, manager>>

Call_create_post ==
  /\ CanCall
  /\ \E a \in PostArgs, answer \in Answers :
       Finish("create_post", a,
              create_post(client, a.title, a.content, a.status, a.excerpt,
                          a.categories, a.tags, a.featured_media, answer))
  /\ UNCHANGED <<cfg, wp_client, _instance, manager>>

Call_update_post ==
  /\ CanCall
  /\ \E id \in {PyInt(7)}, a \in UpdateArgs, answer \in Answers :
       Finish("update_post", [post_id |-> id, fields |-> a],
              update_post(client, id, a.title, a.content, a.status, a.excerpt,
                          a.categories, a.tags, a.featured_media, answer))
  /\ UNCHANGED <<cfg, wp_client, _instance, manager>>

Call_delete_post ==
  /\ CanCall
  /\ \E id \in {PyInt(42)}, force \in Forces, answer \in Answers :
       Finish("delete_post", [post_id |-> id, force |-> force],
              delete_post(client, id, force, answer))
  /\ UNCHANGED <<cfg, wp_client, _instance, manager>>

Call_get_categories ==
  /\ CanCall
  /\ \E a \in PageArgs, answer \in Answers :
       Finish("get_categories", a, get_categories(client, a.limit, a.page, answer))
  /\ UNCHANGED <<cfg, wp_client, _instance, manager>>

Call_get_tags ==
  /\ CanCall
  /\ \E a \in {[limit |-> Ten, page |-> One]}, answer \in Answers :
       Finish("get_tags", a, get_tags(client, a.limit, a.page, answer))
  /\ UNCHANGED <<cfg, wp_client, _instance, manager>>

Call_upload_media ==
  /\ CanCall
  /\ \E a \in UploadArgs, first \in Answers :
       \E second \in IF SendsMetadata(client, a, first) THEN Answers ELSE {first} :
         Finish("upload_media", a,
                upload_media(client, a.file_path, a.title, a.caption, a.alt_text,
                             a.file, first, second))
  /\ UNCHANGED <<cfg, wp_client, _instance, manager>>

Call_get_users ==
  /\ CanCall
  /\ \E a \in {[limit |-> Ten, page |-> One]}, answer \in Answers :
       Finish("get_users", a, get_users(client, a.limit, a.page, answer))
  /\ UNCHANGED <<cfg, wp_client, _instance, manager>>

Call_get_me ==
  /\ CanCall
  /\ \E answer \in Answers : Finish("get_me", [none |-> TRUE], get_me(client, answer))
  /\ UNCHANGED <<cfg, wp_client, _instance, manager>>

Call_get_comments ==
  /\ CanCall
  /\ \E id \in CommentPosts, a \in {[limit |-> Ten, page |-> One]}, answer \in Answers :
       Finish("get_comments", [post_id |-> id, limit |-> a.limit, page |-> a.page],
              get_comments(client, id, a.limit, a.page, answer))
  /\ UNCHANGED <<cfg, wp_client, _instance, manager>>

\* A caller of the request executor itself: any method, endpoint, header
\* overrides and answer of the transport
Call_request ==
  /\ Constructed /\ ncalls = 0
  /\ \E method \in {"GET", "POST", "PUT", "DELETE"},
        endpoint \in {<<"wp/v2/posts">>, <<"/", "wp/v2/posts">>},
        headers \in {None, PyDict(<<Item("Accept", <<"text/html">>)>>)},
        answer \in AllAnswers :
       LET r == _request(client, method, endpoint, None, None, None, headers, answer)
       IN Finish("_request",
                 [method |-> method, endpoint |-> endpoint, headers |-> headers],
                 [self |-> r.self, log |-> <<r.entry>>, result |-> r.result,
                  logged |-> r.logged])
  /\ UNCHANGED <<cfg, wp_client, _instance, manager>>

\* Callers of the request executor with slashes where base URL and endpoint
\* meet and with header overrides, one request after another.  The call
\* records the overrides of the request before it.
Call_request_again ==
  /\ CanCall
  /\ \E method \in {"GET", "PUT"}, endpoint \in Endpoints, headers \in Overrides,
        answer \in {Response(201, WithId), Response(404, WithCode)} :
       LET r == _request(client, method, endpoint, None, None, None, headers, answer)
       IN Finish("_request",
                 [ method |-> method, endpoint |-> endpoint, headers |-> headers,
                   earlier |-> IF call.method = "_request" THEN call.args.headers
                               ELSE None ],
                 [self |-> r.self, log |-> <<r.entry>>, result |-> r.result,
                  logged |-> r.logged])
  /\ UNCHANGED <<cfg, wp_client, _instance, manager>>

Methods ==
  \/ Call_get_posts
  \/ Call_get_post
  \/ Call_create_post
  \/ Call_update_post
  \/ Call_delete_post
  \/ Call_get_categories
  \/ Call_get_tags
  \/ Call_upload_media
  \/ Call_get_users
  \/ Call_get_me
  \/ Call_get_comments

Next == Construct(ClientArgs) \/ Methods

Spec == Init /\ [][Next]_vars

\* The request executor called once, over every answer of the transport
NextRequest == Construct(ClientArgs) \/ Call_request

SpecRequest == Init /\ [][NextRequest]_vars

\* The request executor called repeatedly, over base URLs, endpoints and
\* header overrides
NextExecutor == Construct(ExecutorClientArgs) \/ Call_request_again

SpecExecutor == Init /\ [][NextExecutor]_vars

\* A program constructs a ConfigManager, with a configuration file or not.
Construct_ConfigManager ==
  /\ call.method = "none"
  /\ \E file \in {None} \cup ConfigFiles :
       \E x \in {ConfigManager(file)} :
          /\ manager' = IF x.result.kind = "raise" THEN None ELSE x.self
          /\ call' = [method |-> "ConfigManager", args |-> [config_file |-> file]]
          /\ outcome' = x.result
          /\ errlog' = x.logged
  /\ UNCHANGED <<cfg, client, log, sent, ncalls, wp_client, _instance>>

CanConfigure == manager.t = "ConfigManager" /\ ncalls < MaxCalls

Call_load_from_file ==
  /\ CanConfigure
  /\ \E file \in ConfigFiles :
       \E x \in {load_from_file(manager, file)} :
          /\ manager' = x.self
          /\ call' = [method |-> "load_from_file", args |-> [config_file |-> file]]
          /\ outcome' = x.result
          /\ errlog' = x.logged
  /\ ncalls' = ncalls + 1
  /\ UNCHANGED <<cfg, client, log, sent, wp_client, _instance>>

\* load_from_env with the process environment in any of its orders
Call_load_from_env ==
  /\ CanConfigure
  /\ \E environ \in Environs, prefix \in Prefixes :
       \E x \in {load_from_env(manager, environ, prefix)} :
          /\ manager' = x.self
          /\ call' = [ method |-> "load_from_env",
                       args |-> [environ |-> environ, prefix |-> prefix] ]
          /\ outcome' = x.result
          /\ errlog' = <<>>
  /\ ncalls' = ncalls + 1
  /\ UNCHANGED <<cfg, client, log, sent, wp_client, _instance>>

Call_get ==
  /\ CanConfigure
  /\ \E key \in GetKeys, default \in {None, PyStr(<<"dflt">>)} :
       /\ call' = [method |-> "get", args |-> [key |-> key, default |-> default]]
       /\ outcome' = Return(ConfigManager_get(manager, key, default))
  /\ errlog' = <<>>
  /\ ncalls' = ncalls + 1
  /\ UNCHANGED <<cfg, client, log, sent, wp_client, _instance, manager>>

\* The configuration manager: construction, then loads and reads
NextConfig ==
  \/ Construct_ConfigManager
  \/ Call_load_from_file
  \/ Call_load_from_env
  \/ Call_get

SpecConfig == Init /\ [][NextConfig]_vars

\* The template project: the import, then constructions of the wrapper
NextWrapper == import_wp_client \/ Call_WordPressClientWrapper

SpecWrapper == Init /\ [][NextWrapper]_vars

\* Construction alone, over every combination of arguments and environment
NextInit == Construct(AllClientArgs) \/ import_wp_client

SpecInit == Init /\ [][NextInit]_vars

----------------------------------------------------------------------------
(* Vocabulary of the properties *)

ResourceMethods ==
  { "get_posts", "get_post", "create_post", "update_post", "delete_post",
    "get_categories", "get_tags", "upload_media", "get_users", "get_me",
    "get_comments" }

IsResponse(a) == a.k = "response"
Is2xx(a) == IsResponse(a) /\ 200 <= a.status_code /\ a.status_code <= 299
Is4xx5xx(a) == IsResponse(a) /\ 400 <= a.status_code /\ a.status_code <= 599

\* The best-effort detail of an error response: its JSON, else its text
ErrorDetail(a) ==
  IF json_loads(a.text).ok THEN json_loads(a.text).value ELSE Text(a)

\* What a lenient decode gives: the JSON value, else the empty mapping
Lenient(a) ==
  IF json_loads(a.text).ok THEN Return(json_loads(a.text).value)
  ELSE Return(PyDict(<<>>))

\* An argument that carries a value: a string that is not empty
Given(x) == x.t = "str" /\ Len(x.v) > 0

B64Index(c) == (CHOOSE i \in 1..64 : B64Alphabet[i] = c) - 1

\* The bytes a base64 text stands for
RECURSIVE b64decode(_)
b64decode(cs) ==
  IF Len(cs) < 4 THEN <<>>
  ELSE LET a == B64Index(cs[1])
           b == B64Index(cs[2])
       IN IF cs[3] = "=" THEN <<(a * 4) + (b \div 16)>>
          ELSE IF cs[4] = "="
          THEN <<(a * 4) + (b \div 16), ((b % 16) * 16) + (B64Index(cs[3]) \div 4)>>
          ELSE << (a * 4) + (b \div 16),
                  ((b % 16) * 16) + (B64Index(cs[3]) \div 4),
                  ((B64Index(cs[3]) % 4) * 64) + B64Index(cs[4]) >>
               \o b64decode(SubSeq(cs, 5, Len(cs)))

AuthorizationCount(headers) ==
  Cardinality({i \in DOMAIN headers : headers[i].k = "Authorization"})

----------------------------------------------------------------------------
(* C1..C3: the request executor's treatment of responses (SpecRequest) *)

C2_LenientDecode ==
  \A i \in DOMAIN log :
    Is2xx(log[i].answer) =>
      /\ log[i].result = Lenient(log[i].answer)
      /\ ~json_loads(log[i].answer.text).ok => log[i].result = Return(PyDict(<<>>))
      /\ call.method = "_request" => outcome = log[i].result /\ errlog = <<>>

C2_Witness ==
  /\ call.method = "_request"
  /\ log[1].answer = Response(204, Empty)
  /\ outcome = Return(PyDict(<<>>))

\* C3 as claimed: _request returns a value only for 2xx responses; every
\* response with another status, 1xx and 3xx included, is raised as an error.
C3_OnlySuccessReturns ==
  \A i \in DOMAIN log :
    (IsResponse(log[i].answer) /\ ~Is2xx(log[i].answer)) =>
      log[i].result.kind = "raise"

\* C3 (amended): _request raises for a response exactly when its status is
\* 4xx or 5xx; a response with any other status (2xx, and also 1xx and 3xx)
\* is returned as its decoded JSON value, or as the empty mapping when its
\* body is not JSON.
C3_OnlyErrorStatusRaises ==
  \A i \in DOMAIN log :
    IsResponse(log[i].answer) =>
      /\ (log[i].result.kind = "raise") <=> Is4xx5xx(log[i].answer)
      /\ ~Is4xx5xx(log[i].answer) => log[i].result = Lenient(log[i].answer)

C3_Witness ==
  /\ call.method = "_request"
  /\ log[1].answer = Response(304, WithId)
  /\ outcome = Return(PyDict(<<Item("id", PyInt(7))>>))

----------------------------------------------------------------------------
(* C4, C5: construction (SpecInit) *)

NoCredentials(a, b, c) == ~(Given(a) /\ Given(b)) /\ ~Given(c)

\* C4 as claimed: constructing a client without a username and password
\* pair and without a token, or without a base URL, fails with an error, and
\* no request is issued.
C4_ConstructionFails ==
  /\ call.method = "WordPressClient" =>
       /\ sent = 0
       /\ ( ( NoCredentials(call.args.username, call.args.password,
                            call.args.auth_token)
              \/ ~Given(call.args.base_url) )
            => outcome.kind = "raise" )
  /\ call.method = "import wp_client" =>
       ( ( NoCredentials(call.args.WP_USERNAME, call.args.WP_PASSWORD,
                         call.args.WP_AUTH_TOKEN)
           \/ ~Given(call.args.WP_BASE_URL) )
         => (outcome.kind = "raise" /\ sent = 0) )

\* C4 (amended): the template project's config module fails with a
\* ValueError exactly when WP_BASE_URL is missing or neither the pair
\* WP_USERNAME and WP_PASSWORD nor WP_AUTH_TOKEN is set, and then no client is
\* built and no request issued.  The WordPressClient constructor raises no
\* such error: without credentials, and with an empty base URL, it builds a
\* client, which then has no Authorization header; it issues no request.
C4_ConfigValidates ==
  /\ call.method = "import wp_client" =>
       /\ (cfg.status = "ValueError") <=>
            ( NoCredentials(call.args.WP_USERNAME, call.args.WP_PASSWORD,
                            call.args.WP_AUTH_TOKEN)
              \/ ~Given(call.args.WP_BASE_URL) )
       /\ cfg.status = "ValueError" =>
            /\ outcome = Raise([type |-> "ValueError", missing |-> cfg.missing])
            /\ log = <<>> /\ sent = 0
            /\ wp_client = None /\ client = None
       /\ cfg.status # "ValueError" => Len(log) = 1 /\ sent = 1
  /\ call.method = "WordPressClient" =>
       /\ log = <<>> /\ sent = 0
       /\ (outcome.kind = "raise") <=> (call.args.base_url = None)
       /\ ( Constructed /\ NoCredentials(call.args.username, call.args.password,
                                         call.args.auth_token) ) =>
            AuthorizationCount(client.session.headers) = 0

C4_Witness ==
  /\ call.method = "import wp_client"
  /\ Given(call.args.WP_BASE_URL) /\ Given(call.args.WP_USERNAME)
  /\ cfg = [status |-> "ValueError", missing |-> "credentials"]
  /\ sent = 0

\* C5: whatever username, password and token the constructor is given, the
\* session has at most one Authorization header: Basic base64(username:password)
\* when username and password are both given (a token or not), Bearer <token>
\* when the pair is incomplete and a token is given, none otherwise.
C5_OneAuthScheme ==
  (call.method = "WordPressClient" /\ Constructed) =>
    LET a == call.args
        h == client.session.headers
    IN /\ AuthorizationCount(h) <= 1
       /\ IF Given(a.username) /\ Given(a.password)
          THEN /\ AuthorizationCount(h) = 1
               /\ Head(Get(h, "Authorization")) = "Basic "
               /\ b64decode(Tail(Get(h, "Authorization")))
                    = encode(a.username.v \o <<":">> \o a.password.v)
               /\ Len(Get(h, "Authorization")) =
                    1 + (4 * ((Len(a.username.v) + Len(a.password.v) + 3) \div 3))
          ELSE IF Given(a.auth_token)
          THEN /\ AuthorizationCount(h) = 1
               /\ Get(h, "Authorization") = <<"Bearer ">> \o a.auth_token.v
          ELSE AuthorizationCount(h) = 0

C5_Witness ==
  /\ call.method = "WordPressClient" /\ Constructed
  /\ Given(call.args.username) /\ Given(call.args.password)
  /\ Given(call.args.auth_token)
  /\ Get(client.session.headers, "Authorization")
       = <<"Basic ", "d", "T", "p", "w", "c", "w", "=", "=">>

----------------------------------------------------------------------------
(* C6..C10: the resource methods (Spec) *)

AnyMetadata(a) == Given(a.title) \/ Given(a.caption) \/ Given(a.alt_text)

MediaUrl == client.base_url \o <<"/", "wp/v2/media">>

\* C6: no operation on the client, successful or failing, changes what
\* construction set: the session object (every request goes through it), its
\* headers, the credentials, the base URL and the user agent.  Construction
\* stores the credentials it was given.
C6_ConstructionStateKept ==
  [][ /\ Constructed =>
           /\ client' = client
           /\ \A i \in DOMAIN log' : log'[i].request.session = client.session
      /\ (call'.method = "WordPressClient" /\ client'.t = "WordPressClient") =>
           /\ client'.username = call'.args.username
           /\ client'.password = call'.args.password
           /\ client'.auth_token = call'.args.auth_token
           /\ client'.session.id = 1
           /\ client'.base_url = rstrip(call'.args.base_url.v, "/") ]_vars

C6_Witness ==
  /\ Constructed /\ ncalls >= 2
  /\ outcome.kind = "raise"
  /\ client.session.id = 1
  /\ HasKey(client.session.headers, "Authorization")
  /\ Get(client.session.headers, "Authorization") = <<"Bearer ", "t">>
  /\ Len(log) >= 1
  /\ log[1].request.session = client.session

\* C7: when the request executor raises during a resource method, the
\* method ends with that very error: it is not caught, replaced or turned
\* into a return value.
C7_ErrorsPropagate ==
  call.method \in ResourceMethods =>
    \A i \in DOMAIN log :
      log[i].result.kind = "raise" => outcome = log[i].result

C7_Witness ==
  /\ call.method = "delete_post"
  /\ log[1].answer = Response(500, Html)
  /\ outcome.kind = "raise" /\ outcome.error.type = "HTTPError"
  /\ outcome.error.response = Response(500, Html)

\* The number of requests the claim allows a call
RequestsAsClaimed(c, n) ==
  IF c.method # "upload_media" THEN n = 1
  ELSE n \in {1, 2} /\ (n = 2 => AnyMetadata(c.args))

\* C8 as claimed: every call of a resource method issues exactly one
\* request, upload_media one, or two when metadata is given.
C8_OneRequestPerCall ==
  call.method \in ResourceMethods => RequestsAsClaimed(call, Len(log))

\* C8 (amended): every call of a resource method issues exactly one request,
\* upload_media none when the file cannot be opened and otherwise one, or two
\* when metadata is given, whether the answer is a success or a failure: a
\* failed request is not sent again, and every call, a repeated one too,
\* sends its own requests.
C8_RequestsPerCall ==
  [][ (call'.method \in ResourceMethods /\ ncalls' = ncalls + 1) =>
        /\ sent' = sent + Len(log')
        /\ IF call'.method = "upload_media" /\ call'.args.file = None
           THEN Len(log') = 0
           ELSE RequestsAsClaimed(call', Len(log'))
        /\ \A i, j \in DOMAIN log' :
             log'[i].request = log'[j].request => i = j ]_vars

C8_Witness ==
  /\ call.method = "get_post" /\ ncalls = 2 /\ sent = 2
  /\ Len(log) = 1
  /\ log[1].answer = Response(404, WithCode)
  /\ outcome.kind = "raise"

\* C9 as claimed: upload_media first POSTs the file's bytes to wp/v2/media;
\* then, if and only if metadata is given and the first POST succeeded, it
\* POSTs exactly the given metadata as JSON to wp/v2/media/{id}, with the id
\* the first POST returned.
C9_UploadThenMetadata ==
  (call.method = "upload_media" /\ call.args.file # None) =>
    /\ Len(log) \in {1, 2}
    /\ log[1].request.method = "POST"
    /\ log[1].request.url = MediaUrl
    /\ log[1].request.data = call.args.file
    /\ (Len(log) = 2) <=> (AnyMetadata(call.args) /\ log[1].result.kind = "return")
    /\ Len(log) = 2 =>
         /\ log[2].request.method = "POST"
         /\ log[2].request.url =
              MediaUrl \o <<"/">> \o Format(Get(log[1].result.value.v, "id"))
         /\ log[2].request.data = None
         /\ log[2].request.json.t = "dict"
         /\ \A k \in {"title", "caption", "alt_text"} :
              LET v == IF k = "title" THEN call.args.title
                       ELSE IF k = "caption" THEN call.args.caption
                       ELSE call.args.alt_text
              IN IF Given(v)
                 THEN HasKey(log[2].request.json.v, k)
                      /\ Get(log[2].request.json.v, k) = v
                 ELSE ~HasKey(log[2].request.json.v, k)
         /\ \A i \in DOMAIN log[2].request.json.v :
              log[2].request.json.v[i].k \in {"title", "caption", "alt_text"}

\* C10: when the metadata POST of upload_media fails after the upload
\* succeeded, the call ends with the error of that second request and sends
\* nothing more: its requests are the upload POST and the failed metadata
\* POST, and no DELETE.
C10_NoRollback ==
  ( /\ call.method = "upload_media"
    /\ Len(log) >= 2
    /\ log[1].result.kind = "return"
    /\ log[2].result.kind = "raise" ) =>
      /\ Len(log) = 2
      /\ outcome = log[2].result
      /\ log[1].request.method = "POST" /\ log[1].request.url = MediaUrl
      /\ log[2].request.method = "POST"
      /\ log[2].request.url = MediaUrl \o <<"/">> \o
                                Format(Get(log[1].result.value.v, "id"))

C10_Witness ==
  /\ call.method = "upload_media"
  /\ Len(log) = 2
  /\ log[1].answer = Response(201, WithId)
  /\ log[2].answer = Response(500, Html)
  /\ outcome.kind = "raise" /\ outcome.error.response = Response(500, Html)

----------------------------------------------------------------------------
(* C11, C12: the request executor's URL and headers (SpecExecutor) *)

\* t is s without the slashes s ends with
StripsTrailing(s, t) ==
  /\ Len(t) <= Len(s)
  /\ t = SubSeq(s, 1, Len(t))
  /\ \A i \in (Len(t) + 1)..Len(s) : s[i] = "/"
  /\ t # <<>> => t[Len(t)] # "/"

\* t is s without the slashes s begins with
StripsLeading(s, t) ==
  /\ Len(t) <= Len(s)
  /\ t = SubSeq(s, Len(s) - Len(t) + 1, Len(s))
  /\ \A i \in 1..(Len(s) - Len(t)) : s[i] = "/"
  /\ t # <<>> => t[1] # "/"

\* C11: the URL of a request is the base URL without the slashes it ends
\* with, one slash, and the endpoint without the slashes it begins with, for
\* any number of such slashes: one slash stands between base and path.
C11_OneSlashJoin ==
  /\ (call.method = "WordPressClient" /\ Constructed) =>
       StripsTrailing(call.args.base_url.v, client.base_url)
  /\ Constructed => StripsTrailing(client.base_url, client.base_url)
  /\ call.method = "_request" =>
       LET url == log[1].request.url
           n == Len(client.base_url)
       IN /\ Len(url) > n
          /\ SubSeq(url, 1, n) = client.base_url
          /\ url[n + 1] = "/"
          /\ StripsLeading(call.args.endpoint, SubSeq(url, n + 2, Len(url)))

C11_Witness ==
  /\ call.method = "_request"
  /\ call.args.endpoint = <<"/", "/", "wp/v2/posts", "/">>
  /\ log[1].request.url = <<"https://c/wp-json", "/", "wp/v2/posts", "/">>

\* The default headers of a client, as the documentation of the two
\* _get_default_headers gives them
DefaultHeader(self, k) ==
  CASE k = "Content-Type" -> <<"application/json">>
    [] k = "Accept" -> <<"application/json">>
    [] k = "User-Agent" -> IF Given(self.user_agent) THEN self.user_agent.v
                           ELSE <<"BoomPahConnect/0.1.0">>

DefaultKeys == {"Content-Type", "Accept", "User-Agent"}

OverrideKeys(o) == IF o.t = "dict" THEN {o.v[i].k : i \in DOMAIN o.v} ELSE {}

\* C12: the headers handed to the transport are the defaults with every
\* override key set to the caller's value; a default key that is not
\* overridden keeps its default value; the overrides of the request before
\* play no part.
C12_HeadersMerged ==
  call.method = "_request" =>
    LET h == log[1].request.headers
        o == call.args.headers
    IN /\ {h[i].k : i \in DOMAIN h} = DefaultKeys \cup OverrideKeys(o)
       /\ \A i, j \in DOMAIN h : h[i].k = h[j].k => i = j
       /\ \A k \in OverrideKeys(o) : Get(h, k) = Get(o.v, k)
       /\ \A k \in DefaultKeys \ OverrideKeys(o) : Get(h, k) = DefaultHeader(client, k)

C12_Witness ==
  /\ call.method = "_request" /\ ncalls = 2
  /\ call.args.earlier = PyDict(<<Item("Accept", <<"text/html">>)>>)
  /\ call.args.headers = PyDict(<<Item("X-Trace", <<"1">>)>>)
  /\ log[1].request.headers =
       << Item("Content-Type", <<"application/json">>),
          Item("Accept", <<"application/json">>),
          Item("User-Agent", <<"agent/1">>),
          Item("X-Trace", <<"1">>) >>

----------------------------------------------------------------------------
(* C13..C17: what the resource methods send (Spec) *)

Keys(d) == {d[i].k : i \in DOMAIN d}

NoDuplicateKeys(d) == \A i, j \in DOMAIN d : d[i].k = d[j].k => i = j

PostsUrl == client.base_url \o <<"/", "wp/v2/posts">>

UpdateFields ==
  {"title", "content", "status", "excerpt", "categories", "tags", "featured_media"}

\* C13 as claimed: update_post issues one POST to wp/v2/posts/{post_id}
\* whose JSON body has a field if and only if the caller passed a value other
\* than None for it, with that value; no field is null.
C13_UpdateSendsSupplied ==
  call.method = "update_post" =>
    /\ Len(log) = 1
    /\ log[1].request.method = "POST"
    /\ log[1].request.url = PostsUrl \o <<"/">> \o str(call.args.post_id.v)
    /\ log[1].request.json.t = "dict"
    /\ LET body == log[1].request.json.v
       IN /\ Keys(body) = {k \in UpdateFields : call.args.fields[k] # None}
          /\ NoDuplicateKeys(body)
          /\ \A k \in Keys(body) : Get(body, k) = call.args.fields[k]

\* C14: create_post issues one POST to wp/v2/posts whose JSON body has
\* title, content and status ("draft" when the caller leaves status out),
\* and each of excerpt, categories, tags, featured_media if and only if the
\* caller passed a truthy value for it; it has no other key.
C14_CreateBody ==
  call.method = "create_post" =>
    /\ Len(log) = 1
    /\ log[1].request.method = "POST"
    /\ log[1].request.url = PostsUrl
    /\ log[1].request.data = None /\ log[1].request.params = None
    /\ log[1].request.json.t = "dict"
    /\ LET body == log[1].request.json.v
           a == call.args
       IN /\ Keys(body) =
               {"title", "content", "status"} \cup
               {k \in {"excerpt", "categories", "tags", "featured_media"} : Truthy(a[k])}
          /\ NoDuplicateKeys(body)
          /\ Get(body, "status") =
               IF a.status = Omitted THEN PyStr(<<"draft">>) ELSE a.status
          /\ \A k \in Keys(body) \ {"status"} : Get(body, k) = a[k]

C14_Witness ==
  /\ call.method = "create_post"
  /\ call.args.status = Omitted /\ call.args.excerpt = None
  /\ log[1].request.json =
       PyDict(<< Item("title", PyStr(<<"T">>)), Item("content", PyStr(<<"C">>)),
                 Item("status", PyStr(<<"draft">>)) >>)

\* The decimal ids of a list, with a comma before each but the first
RECURSIVE CommaJoined(_)
CommaJoined(ids) ==
  IF Len(ids) = 0 THEN <<>>
  ELSE IF Len(ids) = 1 THEN str(ids[1].v)
  ELSE CommaJoined(SubSeq(ids, 1, Len(ids) - 1)) \o <<",">> \o str(ids[Len(ids)].v)

ListEndpoint(method) ==
  CASE method = "get_posts" -> "wp/v2/posts"
    [] method = "get_categories" -> "wp/v2/categories"
    [] method = "get_tags" -> "wp/v2/tags"
    [] method = "get_users" -> "wp/v2/users"
    [] method = "get_comments" -> "wp/v2/comments"

\* The filters of a list operation: the query key and the caller's argument
Filters(c) ==
  CASE c.method = "get_posts" ->
         { [key |-> "search", arg |-> c.args.search],
           [key |-> "categories", arg |-> c.args.categories],
           [key |-> "tags", arg |-> c.args.tags] }
    [] c.method = "get_comments" -> { [key |-> "post", arg |-> c.args.post_id] }
    [] OTHER -> {}

\* An argument is provided when the caller passed a value for it that is
\* not None and not empty or zero
Provided(x) == x # Omitted /\ Truthy(x)

\* C15: every list operation sends one GET whose query has per_page = limit
\* and page = page (10 and 1 when left out), get_posts also status
\* ("publish" when left out); the key of a filter is there if and only if
\* the caller provided the argument, with its value, a list of ids as its
\* decimal ids joined by commas in the order given.
C15_ListQuery ==
  call.method \in {"get_posts", "get_categories", "get_tags", "get_users",
                   "get_comments"} =>
    /\ Len(log) = 1
    /\ log[1].request.method = "GET"
    /\ log[1].request.url = client.base_url \o <<"/", ListEndpoint(call.method)>>
    /\ log[1].request.data = None /\ log[1].request.json = None
    /\ log[1].request.params.t = "dict"
    /\ LET q == log[1].request.params.v
           a == call.args
       IN /\ NoDuplicateKeys(q)
          /\ Keys(q) = {"per_page", "page"}
                \cup (IF call.method = "get_posts" THEN {"status"} ELSE {})
                \cup {f.key : f \in {g \in Filters(call) : Provided(g.arg)}}
          /\ Get(q, "per_page") = IF a.limit = Omitted THEN PyInt(10) ELSE a.limit
          /\ Get(q, "page") = IF a.page = Omitted THEN PyInt(1) ELSE a.page
          /\ call.method = "get_posts" =>
               Get(q, "status") =
                 IF a.status = Omitted THEN PyStr(<<"publish">>) ELSE a.status
          /\ \A f \in Filters(call) :
               Provided(f.arg) =>
                 Get(q, f.key) = IF f.arg.t = "list" THEN PyStr(CommaJoined(f.arg.v))
                                 ELSE f.arg

C15_Witness ==
  /\ call.method = "get_posts"
  /\ call.args.categories = PyList(<<PyInt(3), PyInt(12)>>)
  /\ log[1].request.params =
       PyDict(<< Item("per_page", PyInt(10)), Item("page", PyInt(1)),
                 Item("status", PyStr(<<"draft">>)), Item("search", PyStr(<<"q">>)),
                 Item("categories", PyStr(<<"3", ",", "1", "2">>)),
                 Item("tags", PyStr(<<"4">>)) >>)

\* C16: delete_post issues one DELETE to wp/v2/posts/{post_id}, without a
\* body, whose only query parameter is force: the string "true" when force
\* is true, "false" when it is false or left out.
C16_DeleteForce ==
  call.method = "delete_post" =>
    /\ Len(log) = 1
    /\ log[1].request.method = "DELETE"
    /\ log[1].request.url = PostsUrl \o <<"/">> \o str(call.args.post_id.v)
    /\ log[1].request.data = None /\ log[1].request.json = None
    /\ log[1].request.params =
         PyDict(<<Item("force", PyStr(IF call.args.force = PyBool(TRUE)
                                      THEN <<"true">> ELSE <<"false">>))>>)

C16_Witness ==
  /\ call.method = "delete_post" /\ call.args.force = Omitted
  /\ log[1].request.method = "DELETE"
  /\ log[1].request.url = <<"https://site/wp-json", "/", "wp/v2/posts", "/", "4", "2">>
  /\ log[1].request.params = PyDict(<<Item("force", PyStr(<<"false">>))>>)

\* name is what follows the last slash of path
BaseNameOf(path, name) ==
  /\ Len(name) <= Len(path)
  /\ name = SubSeq(path, Len(path) - Len(name) + 1, Len(path))
  /\ \A i \in DOMAIN name : name[i] # "/"
  /\ Len(name) < Len(path) => path[Len(path) - Len(name)] = "/"

\* C17: the upload request of upload_media has the file's bytes as its body
\* and, in its headers, the MIME type of the file's extension as
\* Content-Type (image/png for .png, application/octet-stream for an unknown
\* extension) in place of application/json, Content-Disposition
\* attachment; filename="<base name>", and the default Accept and User-Agent.
C17_UploadRequest ==
  (call.method = "upload_media" /\ call.args.file # None) =>
    LET r == log[1].request
        h == r.headers
        path == call.args.file_path
        ext == path[Len(path)]
    IN /\ r.method = "POST" /\ r.url = MediaUrl
       /\ r.data = call.args.file /\ r.json = None
       /\ NoDuplicateKeys(h)
       /\ Keys(h) = {"Content-Type", "Accept", "User-Agent", "Content-Disposition"}
       /\ ext = ".png" => Get(h, "Content-Type") = <<"image/png">>
       /\ ext \notin {".png", ".jpg"} =>
            Get(h, "Content-Type") = <<"application/octet-stream">>
       /\ Get(h, "Content-Type") # <<"application/json">>
       /\ \E n \in 1..Len(path) :
            LET name == SubSeq(path, n, Len(path))
            IN /\ BaseNameOf(path, name)
               /\ Get(h, "Content-Disposition") =
                    <<"attachment; filename=\"">> \o name \o <<"\"">>
       /\ Get(h, "Accept") = DefaultHeader(client, "Accept")
       /\ Get(h, "User-Agent") = DefaultHeader(client, "User-Agent")

C17_Witness ==
  /\ call.method = "upload_media"
  /\ call.args.file_path = <<"/", "tmp", "/", "a", ".png">>
  /\ log[1].request.data = PyBytes(<<137, 80, 78, 71>>)
  /\ log[1].request.headers =
       << Item("Content-Type", <<"image/png">>),
          Item("Accept", <<"application/json">>),
          Item("User-Agent", <<"agent/1">>),
          Item("Content-Disposition", <<"attachment; filename=\"", "a", ".png", "\"">>) >>

----------------------------------------------------------------------------
(* C18: the wrapper singleton (SpecWrapper) *)

\* C18 as claimed: every WordPressClientWrapper() that returns an instance
\* returns one whose probe (get_me) has succeeded, also when the first
\* construction raised because its probe failed.
C18_InstanceProbed ==
  /\ wp_client # None => wp_client.connected
  /\ (call.method = "WordPressClientWrapper" /\ outcome.kind = "return") =>
       outcome.value.connected

----------------------------------------------------------------------------
(* C19: upload_media between its two requests (Spec) *)

TransportErrors == {"HTTPError", "ConnectionError"}

\* C19 as claimed: when upload_media is given metadata and the upload POST
\* is answered with a 2xx status, the metadata POST comes next, whatever the
\* body of that answer (empty, not JSON, JSON without an id): the call does
\* not end between the two requests with an error that is no transport error.
C19_NoFailureBetweenRequests ==
  ( /\ call.method = "upload_media"
    /\ AnyMetadata(call.args)
    /\ Len(log) >= 1
    /\ Is2xx(log[1].answer) ) =>
      /\ Len(log) = 2
      /\ log[2].request.method = "POST"
      /\ outcome.kind = "raise" => outcome.error.type \in TransportErrors

----------------------------------------------------------------------------
(* C20: the template project's client is authenticated (SpecInit) *)

\* C20: when the configuration validation passes, the client built from the
\* values has one Authorization header on its session and sends none of its
\* own with a request, so each request carries exactly one: Basic when
\* WP_USERNAME and WP_PASSWORD are set, Bearer otherwise.
C20_ValidatedClientAuthenticated ==
  (call.method = "import wp_client" /\ cfg.status = "loaded") =>
    LET e == cfg.env
        made == _instance.client
        scheme == IF Given(e.WP_USERNAME) /\ Given(e.WP_PASSWORD)
                  THEN "Basic " ELSE "Bearer "
    IN /\ _instance # None /\ made.t = "WordPressClient"
       /\ Given(e.WP_BASE_URL)
       /\ (Given(e.WP_USERNAME) /\ Given(e.WP_PASSWORD)) \/ Given(e.WP_AUTH_TOKEN)
       /\ AuthorizationCount(made.session.headers) = 1
       /\ Head(Get(made.session.headers, "Authorization")) = scheme
       /\ scheme = "Bearer " =>
            Get(made.session.headers, "Authorization") = <<"Bearer ">> \o e.WP_AUTH_TOKEN.v
       /\ Len(log) = 1
       /\ \A i \in DOMAIN log :
            /\ log[i].request.session = made.session
            /\ AuthorizationCount(log[i].request.headers) = 0

C20_Witness ==
  /\ call.method = "import wp_client" /\ cfg.status = "loaded"
  /\ ~Given(cfg.env.WP_PASSWORD) /\ Given(cfg.env.WP_USERNAME)
  /\ Get(log[1].request.session.headers, "Authorization") = <<"Bearer ", "t">>
  /\ wp_client # None

----------------------------------------------------------------------------
(* C21, C22: the configuration manager (SpecConfig) *)

Lowercase(c) ==
  IF c \in {"B", "W", "U", "D", "H"}
  THEN [B |-> "b", W |-> "w", U |-> "u", D |-> "d", H |-> "h"][c]
  ELSE c

\* The dotted key of a variable: what follows the prefix, in lower case,
\* with a dot for each underscore
DottedKey(name, prefix) ==
  [ i \in 1..(Len(name) - Len(prefix)) |->
      IF name[Len(prefix) + i] = "_" THEN "." ELSE Lowercase(name[Len(prefix) + i]) ]

\* The variables of an environment whose names begin with the prefix
WithPrefix(environ, prefix) ==
  LET Begins(e) == startswith(e.name, prefix)
  IN SelectSeq(environ, Begins)

\* C21 as claimed: after load_from_env(prefix) completes, get() of the
\* dotted key of every variable whose name begins with the prefix returns
\* the variable's value, for every set of variables in every order, also
\* when one key is a prefix of another; the other variables change nothing.
C21_EnvValuesReadBack ==
  [][ (call'.method = "load_from_env" /\ outcome'.kind = "return") =>
        /\ \A i \in DOMAIN call'.args.environ :
             startswith(call'.args.environ[i].name, call'.args.prefix) =>
               ConfigManager_get(manager',
                                 DottedKey(call'.args.environ[i].name, call'.args.prefix),
                                 None)
                 = call'.args.environ[i].value
        /\ manager' = load_from_env(manager,
                                    WithPrefix(call'.args.environ, call'.args.prefix),
                                    call'.args.prefix).self ]_vars

\* Whether a file holds a JSON object
HoldsObject(f) ==
  f.k = "text" /\ json_loads(f.text).ok /\ json_loads(f.text).value.t = "dict"

\* Whether a path names no file, or a file without valid JSON in it
NoFileOrNoJson(f) ==
  \/ f.k \in {"missing", "not a directory", "bytes"}
  \/ f.k = "text" /\ ~json_loads(f.text).ok

\* C22 as claimed: load_from_file on a file that does not exist or does
\* not hold valid JSON raises nothing and leaves the configuration as it
\* was; on a JSON object it puts the object's top-level keys over the
\* configuration.
C22_LoadFromFileLenient ==
  [][ call'.method = "load_from_file" =>
        LET f == call'.args.config_file
        IN /\ NoFileOrNoJson(f) =>
                outcome' = Return(None) /\ manager' = manager
           /\ HoldsObject(f) =>
                LET o == json_loads(f.text).value.v
                    before == manager.config.v
                    after == manager'.config.v
                IN /\ outcome' = Return(None)
                   /\ Keys(after) = Keys(before) \cup Keys(o)
                   /\ NoDuplicateKeys(after)
                   /\ \A k \in Keys(o) : Get(after, k) = Get(o, k)
                   /\ \A k \in Keys(before) \ Keys(o) : Get(after, k) = Get(before, k) ]_vars

====
